---- MODULE Spec2Model ----
(***************************************************************************)
(* The incremental scene-graph backend (DsgBackend): the backend loop      *)
(* runPgmo, the ingestion callbacks, the loop-closure queue and the        *)
(* room / building maintenance of incremental_dsg_backend.cpp.             *)
(***************************************************************************)
EXTENDS Integers, Sequences, FiniteSets, TLC

\* ------------------------------------------------------------------ bounds
MaxMsgs == 2        \* factor messages (mesh or pose) delivered in one run
MaxEdges == 1       \* edges carried by one factor message
MaxLC == 2          \* loop-closure candidates pushed in one run
MaxLCRooms == 1     \* the same, in the runs that follow the graph layers
MaxVerts == 1       \* vertices of a full-mesh message (0 = empty mesh)
MaxPlaces == 2      \* place nodes the front end may create
MaxRooms == 2       \* room nodes the room finder may create
MaxPos == 1         \* positions are the integers 0..MaxPos
MaxMsgsLocks == 1   \* factor messages that arrive while every thread runs
MaxLayerPlaces == 3 \* nodes of a places snapshot handed to the solver as a whole

\* an absent value (a null pointer) is the empty sequence, a present one <<v>>
Null == <<>>
Some(v) == <<v>>

Places == 1..MaxPlaces
Rooms == 1..MaxRooms
Positions == 0..MaxPos
LayerPlaces == 1..MaxLayerPlaces

VARIABLES
  \* configuration, fixed by the constructor
  optimize_on_lc_, call_update_periodically_, enable_node_merging_,
  add_places_to_deformation_graph_, room_finder_,
  \* the backend thread: its position in runPgmo and its locals
  pc, have_graph_updates, prev_loop_closures, have_frontend_updates,
  active_place_nodes,
  \* the mutexes: "free" or the thread that holds it
  pgmo_mutex_, lcd_mutex, private_mutex, shared_mutex,
  \* members guarded by pgmo_mutex_
  deformation_graph_updates_, pose_graph_updates_, latest_mesh_, have_new_mesh_,
  \* loop closures
  loop_closures, num_loop_closures_, have_loopclosures_,
  status_,
  \* the deformation solver (deformation_graph_)
  solver,
  \* shared (front-end) graph state
  shared_places, shared_removed, shared_latest_places, shared_updated,
  \* private (backend) graph state
  private_places, place_parent, rooms, buildings, private_latest_places,
  private_mesh, private_updated,
  shared_places_copy_, unlabeled_place_nodes_,
  \* shutdown and the render thread: the flag, the position of the destructor,
  \* the position of runVisualizer and its two members
  should_shutdown_, dtor_pc, viz_pc, visualizer_should_reset_,
  visualizer_show_frontend_,
  \* the queued candidates whose from / to node is not in the shared graph
  dangling,
  \* the places snapshot besides its nodes: its edges (sets of two nodes) and the
  \* nodes whose attributes have pcl_mesh_connections
  copy_edges, pcl_mesh_connections,
  \* history variables (not program state)
  arrived, pushed, popped, cyc, merged_latest, tracked, removed_ids

cfgVars == <<optimize_on_lc_, call_update_periodically_, enable_node_merging_,
             add_places_to_deformation_graph_, room_finder_>>
lockVars == <<pgmo_mutex_, lcd_mutex, private_mutex, shared_mutex>>
bufVars == <<deformation_graph_updates_, pose_graph_updates_>>
meshVars == <<latest_mesh_, have_new_mesh_>>
lcVars == <<loop_closures, num_loop_closures_, have_loopclosures_>>
sharedVars == <<shared_places, shared_removed, shared_latest_places, shared_updated>>
graphVars == <<private_places, place_parent, rooms, buildings>>
privVars == <<private_latest_places, private_mesh, private_updated,
              shared_places_copy_, unlabeled_place_nodes_>>
localVars == <<have_graph_updates, prev_loop_closures, have_frontend_updates,
               active_place_nodes>>
histVars == <<arrived, pushed, popped, merged_latest, tracked>>
layerVars == <<copy_edges, pcl_mesh_connections>>
vizVars == <<should_shutdown_, dtor_pc, viz_pc, visualizer_should_reset_,
             visualizer_show_frontend_>>

vars == <<cfgVars, pc, localVars, lockVars, bufVars, meshVars, lcVars, status_,
          solver, sharedVars, graphVars, privVars, histVars, cyc, vizVars,
          dangling, removed_ids, layerVars>>

\* ------------------------------------------------------------ pose graphs
\* the k-th factor message: one node and ne edges, each its own token
PoseGraph(k, ne) ==
  [header |-> k, nodes |-> <<k>>, edges |-> [j \in 1..ne |-> <<k, j>>]]

mergePoseGraphs_Overwrite(new_graph, graph_to_fill) ==
  [header |-> new_graph.header, nodes |-> new_graph.nodes, edges |-> new_graph.edges]

mergePoseGraphs_Prepend(new_graph, graph_to_fill) ==
  [header |-> new_graph.header,
   nodes |-> new_graph.nodes \o graph_to_fill.nodes,
   edges |-> new_graph.edges \o graph_to_fill.edges]

mergePoseGraphs(new_graph, graph_to_fill) ==
  [header |-> new_graph.header,
   nodes |-> graph_to_fill.nodes \o new_graph.nodes,
   edges |-> graph_to_fill.edges \o new_graph.edges]

\* the body of both factor callbacks: initialise the accumulator or append
Accumulate(acc, msg) ==
  IF acc = Null THEN Some(msg) ELSE Some(mergePoseGraphs(msg, acc[1]))

RECURSIVE ConcatNodes(_), ConcatEdges(_)
\* history: the nodes / edges of a sequence of messages, in arrival order
ConcatNodes(ms) ==
  IF ms = <<>> THEN <<>> ELSE ms[1].nodes \o ConcatNodes(Tail(ms))
ConcatEdges(ms) ==
  IF ms = <<>> THEN <<>> ELSE ms[1].edges \o ConcatEdges(Tail(ms))

\* ------------------------------------------------------------------ status
StatusReset ==
  [new_factors_ |-> 0, new_graph_factors_ |-> 0,
   total_loop_closures_ |-> 0, new_loop_closures_ |-> 0]

\* lines 407 and 415: new_factors_ += edges.size()
AddFactors_Assign(count, edges) == Len(edges)
AddFactors(count, edges) == count + Len(edges)

\* per-cycle history, cleared when a cycle starts
CycReset ==
  [drained_mesh |-> FALSE, drained_pose |-> FALSE, popped |-> 0,
   queue_at_lock |-> <<>>, betweens_added |-> <<>>, lcd_calls |-> 0,
   optimize_runs |-> 0, mesh_refresh |-> 0, deform_calls |-> 0,
   pipeline_runs |-> 0, solver_work |-> FALSE,
   building_before |-> FALSE, active_handed |-> FALSE,
   mesh_edges |-> 0, pose_edges |-> 0, mesh_in |-> <<>>, mesh_before |-> <<>>,
   update_calls |-> <<>>, update_locked |-> TRUE, shutdown_at |-> "never",
   applied |-> <<>>, arrived_mesh |-> <<>>, arrived_pose |-> <<>>]

\* ------------------------------------------------------------------- Init
\* the members after the constructor, whatever the parameters
InitCommon ==
  /\ have_graph_updates = FALSE
  /\ prev_loop_closures = 0
  /\ have_frontend_updates = FALSE
  /\ active_place_nodes = {}
  /\ lcd_mutex = "free" /\ shared_mutex = "free"
  /\ deformation_graph_updates_ = Null
  /\ pose_graph_updates_ = Null
  /\ latest_mesh_ = Null
  /\ have_new_mesh_ = FALSE
  /\ loop_closures = <<>>
  /\ num_loop_closures_ = 0
  /\ have_loopclosures_ = FALSE
  /\ status_ = StatusReset
  /\ shared_places = {} /\ shared_removed = {}
  /\ shared_latest_places = {} /\ shared_updated = FALSE
  /\ private_places = {}
  /\ place_parent = [p \in Places |-> 0]
  /\ rooms = <<>>
  /\ buildings = <<>>
  /\ private_latest_places = {}
  /\ private_mesh = Null
  /\ private_updated = FALSE
  /\ unlabeled_place_nodes_ = {}
  /\ arrived = [dg |-> <<>>, pg |-> <<>>, n |-> 0]
  /\ pushed = 0
  /\ popped = 0
  /\ cyc = CycReset
  /\ merged_latest = {}
  /\ tracked = {}
  /\ should_shutdown_ = FALSE
  /\ dtor_pc = "alive"
  /\ dangling = {}
  /\ removed_ids = {}

\* the backend at the top of its loop, no lock held, nothing in the solver and an
\* empty places copy
InitState ==
  /\ InitCommon
  /\ pc = "loop"
  /\ pgmo_mutex_ = "free" /\ private_mutex = "free"
  /\ solver = [betweens |-> <<>>, temp_nodes |-> {}, temp_valences |-> {},
               temp_betweens |-> {}]
  /\ copy_edges = {}
  /\ pcl_mesh_connections = {}
  /\ shared_places_copy_ = {}

\* startPgmo was called and startVisualizer was not: visualizer_thread_ is null
NoVisualizer ==
  /\ viz_pc = "none"
  /\ visualizer_should_reset_ = FALSE
  /\ visualizer_show_frontend_ = FALSE

\* parameters as the constructor reads them: the two that steer the optimization vary
Init ==
  /\ optimize_on_lc_ \in BOOLEAN
  /\ call_update_periodically_ \in BOOLEAN
  /\ enable_node_merging_ = TRUE
  /\ add_places_to_deformation_graph_ = TRUE
  /\ room_finder_ = TRUE
  /\ NoVisualizer
  /\ InitState

\* ======================================================== ingestion callbacks
\* DsgBackend::deformationGraphCallback: under pgmo_mutex_, initialise or append;
\* limit bounds the messages that arrive in a run
DeformationGraphMsg(limit) ==
  /\ pgmo_mutex_ = "free"
  /\ arrived.n < limit
  /\ \E ne \in 0..MaxEdges :
       LET msg == PoseGraph(arrived.n + 1, ne) IN
       /\ deformation_graph_updates_' = Accumulate(deformation_graph_updates_, msg)
       /\ arrived' = [arrived EXCEPT !.dg = Append(@, msg), !.n = @ + 1]
  /\ UNCHANGED <<cfgVars, layerVars, vizVars, dangling, removed_ids, pc, localVars, lockVars, pose_graph_updates_, meshVars,
                 lcVars, status_, solver, sharedVars, graphVars, privVars,
                 pushed, popped, merged_latest, tracked, cyc>>

deformationGraphCallback == DeformationGraphMsg(MaxMsgs)

\* DsgBackend::poseGraphCallback
PoseGraphMsg(limit) ==
  /\ pgmo_mutex_ = "free"
  /\ arrived.n < limit
  /\ \E ne \in 0..MaxEdges :
       LET msg == PoseGraph(arrived.n + 1, ne) IN
       /\ pose_graph_updates_' = Accumulate(pose_graph_updates_, msg)
       /\ arrived' = [arrived EXCEPT !.pg = Append(@, msg), !.n = @ + 1]
  /\ UNCHANGED <<cfgVars, layerVars, vizVars, dangling, removed_ids, pc, localVars, lockVars, deformation_graph_updates_,
                 meshVars, lcVars, status_, solver, sharedVars, graphVars, privVars,
                 pushed, popped, merged_latest, tracked, cyc>>

poseGraphCallback == PoseGraphMsg(MaxMsgs)

\* DsgBackend::fullMeshCallback: a mesh of v vertices replaces the latest mesh
fullMeshCallback ==
  /\ pgmo_mutex_ = "free"
  /\ \E v \in 0..MaxVerts :
       /\ latest_mesh_' = Some(v)
       /\ have_new_mesh_' = TRUE
  /\ UNCHANGED <<cfgVars, layerVars, vizVars, dangling, removed_ids, pc, localVars, lockVars, bufVars, lcVars, status_, solver,
                 sharedVars, graphVars, privVars, histVars, cyc>>

\* the front end's loop-closure detector: push a candidate under lcd_mutex
PushCandidate(limit) ==
  /\ lcd_mutex = "free"
  /\ pushed < limit
  /\ loop_closures' = Append(loop_closures, pushed + 1)
  /\ pushed' = pushed + 1
  /\ UNCHANGED <<cfgVars, layerVars, vizVars, dangling, removed_ids, pc, localVars, lockVars, bufVars, meshVars,
                 num_loop_closures_, have_loopclosures_, status_, solver, sharedVars,
                 graphVars, privVars, arrived, popped, merged_latest,
                 tracked, cyc>>

\* the detector pushes a candidate that names an agent node the shared graph
\* does not hold
PushDanglingCandidate(limit) ==
  /\ lcd_mutex = "free"
  /\ pushed < limit
  /\ loop_closures' = Append(loop_closures, pushed + 1)
  /\ pushed' = pushed + 1
  /\ dangling' = dangling \cup {pushed + 1}
  /\ UNCHANGED <<cfgVars, layerVars, vizVars, removed_ids, pc, localVars, lockVars, bufVars,
                 meshVars, num_loop_closures_, have_loopclosures_, status_, solver,
                 sharedVars, graphVars, privVars, arrived, popped, merged_latest,
                 tracked, cyc>>

\* ============================================================ DsgBackend::runPgmo
\* lines 396-400: a cycle starts; have_graph_updates is declared without a value,
\* so what the cycle later reads of it, unless a drain writes it, is indeterminate
CycleStart ==
  /\ pc = "loop"
  /\ ~should_shutdown_
  /\ pc' = "pgmo_lock"
  /\ status_' = StatusReset
  /\ prev_loop_closures' = num_loop_closures_
  /\ have_graph_updates' \in BOOLEAN
  /\ cyc' = [CycReset EXCEPT !.building_before = (DOMAIN buildings # {})]
  /\ UNCHANGED <<cfgVars, layerVars, vizVars, dangling, removed_ids, have_frontend_updates, active_place_nodes, lockVars,
                 bufVars, meshVars, lcVars, solver, sharedVars, graphVars, privVars,
                 histVars>>

\* line 396 with should_shutdown_ set: the loop is left and the thread ends
BackendExit ==
  /\ pc = "loop"
  /\ should_shutdown_
  /\ pc' = "exited"
  /\ UNCHANGED <<cfgVars, layerVars, vizVars, dangling, removed_ids, localVars, lockVars,
                 bufVars, meshVars, lcVars, status_, solver, sharedVars, graphVars,
                 privVars, histVars, cyc>>

\* line 403
PgmoLock ==
  /\ pc = "pgmo_lock"
  /\ pgmo_mutex_ = "free"
  /\ pgmo_mutex_' = "backend"
  /\ pc' = "mesh_factors"
  /\ UNCHANGED <<cfgVars, layerVars, vizVars, dangling, removed_ids, localVars, lcd_mutex, private_mutex, shared_mutex, bufVars,
                 meshVars, lcVars, status_, solver, sharedVars, graphVars, privVars,
                 histVars, cyc>>

\* lines 405-412
DrainMeshFactors ==
  /\ pc = "mesh_factors"
  /\ pc' = "pose_factors"
  /\ IF deformation_graph_updates_ # Null
       THEN LET g == deformation_graph_updates_[1] IN
            /\ status_' = [status_ EXCEPT !.new_graph_factors_ = Len(g.edges),
                                          !.new_factors_ = AddFactors(@, g.edges)]
            /\ deformation_graph_updates_' = Null
            /\ have_graph_updates' = TRUE
            /\ cyc' = [cyc EXCEPT !.drained_mesh = TRUE, !.solver_work = TRUE,
                                  !.mesh_edges = Len(ConcatEdges(arrived.dg)),
                                  !.applied = @ \o g.edges,
                                  !.arrived_mesh = arrived.dg]
       ELSE UNCHANGED <<status_, deformation_graph_updates_, have_graph_updates, cyc>>
  /\ arrived' = [arrived EXCEPT !.dg = <<>>]
  /\ UNCHANGED <<cfgVars, layerVars, vizVars, dangling, removed_ids, prev_loop_closures, have_frontend_updates,
                 active_place_nodes, lockVars, pose_graph_updates_, meshVars, lcVars,
                 solver, sharedVars, graphVars, privVars, pushed, popped, merged_latest,
                 tracked>>

\* lines 414-421
DrainPoseFactors ==
  /\ pc = "pose_factors"
  /\ pc' = "lcd_lock"
  /\ IF pose_graph_updates_ # Null
       THEN LET g == pose_graph_updates_[1] IN
            /\ status_' = [status_ EXCEPT !.new_factors_ = AddFactors(@, g.edges)]
            /\ pose_graph_updates_' = Null
            /\ have_graph_updates' = TRUE
            /\ cyc' = [cyc EXCEPT !.drained_pose = TRUE, !.solver_work = TRUE,
                                  !.pose_edges = Len(ConcatEdges(arrived.pg)),
                                  !.applied = @ \o g.edges,
                                  !.arrived_pose = arrived.pg]
       ELSE UNCHANGED <<status_, pose_graph_updates_, have_graph_updates, cyc>>
  /\ arrived' = [arrived EXCEPT !.pg = <<>>]
  /\ UNCHANGED <<cfgVars, layerVars, vizVars, dangling, removed_ids, prev_loop_closures, have_frontend_updates,
                 active_place_nodes, lockVars, deformation_graph_updates_, meshVars,
                 lcVars, solver, sharedVars, graphVars, privVars, pushed, popped,
                 merged_latest, tracked>>

\* ------------------------------ DsgBackend::addInternalLCDToDeformationGraph
\* line 558
LcdLock ==
  /\ pc = "lcd_lock"
  /\ lcd_mutex = "free"
  /\ lcd_mutex' = "backend"
  /\ pc' = "lcd_loop"
  /\ cyc' = [cyc EXCEPT !.queue_at_lock = loop_closures, !.lcd_calls = @ + 1]
  /\ UNCHANGED <<cfgVars, layerVars, vizVars, dangling, removed_ids, localVars, pgmo_mutex_, private_mutex, shared_mutex, bufVars,
                 meshVars, lcVars, status_, solver, sharedVars, graphVars, privVars,
                 histVars>>

\* lines 560-561: front() and pop()
QueueFront_Back(q) == q[Len(q)]
QueueFront(q) == q[1]
QueuePop(q) == Tail(q)

\* line 581
CountLoopClosure_Forget(n) == n
CountLoopClosure(n) == n + 1

\* lines 567-576: getDynamicNode(..).value() of a candidate; std::optional::value()
\* throws std::bad_optional_access when the node is not in the shared graph
NodeLookupThrows(result) == result \in dangling

\* lines 559-583: one iteration of the while loop. Nothing in runPgmo catches the
\* exception of the node lookup: it leaves the thread function and the backend
\* thread is over, with the candidate popped and no factor added
LcdPop ==
  /\ pc = "lcd_loop"
  /\ loop_closures # <<>>
  /\ LET result == QueueFront(loop_closures) IN
       /\ loop_closures' = QueuePop(loop_closures)
       /\ popped' = popped + 1
       /\ IF NodeLookupThrows(result)
            THEN /\ pc' = "terminated"
                 /\ cyc' = [cyc EXCEPT !.popped = @ + 1]
                 /\ UNCHANGED <<solver, num_loop_closures_, have_loopclosures_>>
            ELSE /\ solver' = [solver EXCEPT !.betweens = Append(@, result)]
                 /\ cyc' = [cyc EXCEPT !.betweens_added = Append(@, result),
                                       !.popped = @ + 1, !.solver_work = TRUE]
                 /\ num_loop_closures_' = CountLoopClosure(num_loop_closures_)
                 /\ have_loopclosures_' = TRUE
                 /\ UNCHANGED pc
  /\ UNCHANGED <<cfgVars, layerVars, vizVars, dangling, removed_ids, localVars, lockVars, bufVars, meshVars, status_,
                 sharedVars, graphVars, privVars, arrived, pushed,
                 merged_latest, tracked>>

\* line 559 with the queue empty, the return (586) and lines 424-437: both locks
\* are released and the status record is filled
LcdDone_HoldsPgmo ==
  /\ pc = "lcd_loop"
  /\ loop_closures = <<>>
  /\ lcd_mutex' = "free"
  /\ pgmo_mutex_' = pgmo_mutex_
  /\ IF num_loop_closures_ > 0
       THEN /\ status_' = [status_ EXCEPT
                 !.total_loop_closures_ = num_loop_closures_,
                 !.new_loop_closures_ = num_loop_closures_ - prev_loop_closures]
            /\ have_loopclosures_' = TRUE
       ELSE UNCHANGED <<status_, have_loopclosures_>>
  /\ pc' = "private_lock"
  /\ UNCHANGED <<cfgVars, layerVars, vizVars, dangling, removed_ids, localVars, private_mutex, shared_mutex, bufVars, meshVars,
                 loop_closures, num_loop_closures_, solver, sharedVars, graphVars,
                 privVars, histVars, cyc>>

LcdDone ==
  /\ pc = "lcd_loop"
  /\ loop_closures = <<>>
  /\ lcd_mutex' = "free"
  /\ pgmo_mutex_' = "free"
  /\ IF num_loop_closures_ > 0
       THEN /\ status_' = [status_ EXCEPT
                 !.total_loop_closures_ = num_loop_closures_,
                 !.new_loop_closures_ = num_loop_closures_ - prev_loop_closures]
            /\ have_loopclosures_' = TRUE
       ELSE UNCHANGED <<status_, have_loopclosures_>>
  /\ pc' = "private_lock"
  /\ UNCHANGED <<cfgVars, layerVars, vizVars, dangling, removed_ids, localVars, private_mutex, shared_mutex, bufVars, meshVars,
                 loop_closures, num_loop_closures_, solver, sharedVars, graphVars,
                 privVars, histVars, cyc>>

\* line 441
PrivateLock ==
  /\ pc = "private_lock"
  /\ private_mutex = "free"
  /\ private_mutex' = "backend"
  /\ pc' = "merge"
  /\ UNCHANGED <<cfgVars, layerVars, vizVars, dangling, removed_ids, localVars, pgmo_mutex_, lcd_mutex, shared_mutex, bufVars,
                 meshVars, lcVars, status_, solver, sharedVars, graphVars, privVars,
                 histVars, cyc>>

\* ------------------------------------------------ DsgBackend::updatePrivateDsg
\* mergeGraph / mergeLayer followed by the removal of the removed nodes
MergePlaces(mine, theirs, removed) == (mine \cup theirs) \ removed

\* the parents of the places that remain
KeepParents(parent, remaining) ==
  [p \in Places |-> IF p \in remaining THEN parent[p] ELSE 0]

\* a place that is no longer in the layer, or has a parent, is no longer followed
Follow(t, places, parent) == {p \in t : p \in places /\ parent[p] = 0}

\* lines 330-350: the flag is read, and with it set the shared lock is taken and
\* the shared graph is merged into the private one
UpdatePrivateDsgMerge ==
  /\ pc = "merge"
  /\ have_frontend_updates' = shared_updated
  /\ IF shared_updated
       THEN /\ shared_mutex = "free"
            /\ shared_mutex' = "backend"
            /\ private_places' = MergePlaces(private_places, shared_places, shared_removed)
            /\ place_parent' = KeepParents(place_parent, private_places')
            /\ private_latest_places' = shared_latest_places
            /\ shared_places_copy_' =
                 MergePlaces(shared_places_copy_, shared_places, shared_removed)
            /\ merged_latest' = shared_latest_places
            /\ tracked' = Follow(tracked, private_places', place_parent')
       ELSE UNCHANGED <<shared_mutex, private_places, place_parent,
                        private_latest_places, shared_places_copy_, merged_latest,
                        tracked>>
  /\ pc' = "clear_flag"
  /\ UNCHANGED <<cfgVars, layerVars, vizVars, dangling, removed_ids, have_graph_updates,
                 prev_loop_closures, active_place_nodes, pgmo_mutex_, lcd_mutex,
                 private_mutex, bufVars, meshVars, lcVars, status_, solver, sharedVars,
                 rooms, buildings, private_mesh, private_updated,
                 unlabeled_place_nodes_, arrived, pushed, popped, cyc>>

UpdatePrivateDsgClear_KeepLock ==
  /\ pc = "clear_flag"
  /\ shared_updated' = IF have_frontend_updates THEN FALSE ELSE shared_updated
  /\ have_frontend_updates' = FALSE
  /\ pc' = "decide"
  /\ UNCHANGED <<cfgVars, layerVars, vizVars, dangling, removed_ids, have_graph_updates,
                 prev_loop_closures, active_place_nodes, lockVars, bufVars, meshVars,
                 lcVars, status_, solver, shared_places, shared_removed,
                 shared_latest_places, graphVars, privVars, histVars, cyc>>

\* line 351, the end of the joint critical section, releases the shared lock;
\* line 352 then clears the flag, with the lock no longer held
UpdatePrivateDsgClear ==
  /\ pc = "clear_flag"
  /\ IF shared_mutex = "backend"
       THEN /\ shared_mutex' = "free"
            /\ UNCHANGED <<pc, shared_updated, have_frontend_updates>>
       ELSE /\ shared_updated' = IF have_frontend_updates THEN FALSE ELSE shared_updated
            /\ have_frontend_updates' = FALSE
            /\ pc' = "decide"
            /\ UNCHANGED shared_mutex
  /\ UNCHANGED <<cfgVars, layerVars, vizVars, dangling, removed_ids, have_graph_updates,
                 prev_loop_closures, active_place_nodes, pgmo_mutex_, lcd_mutex,
                 private_mutex, bufVars, meshVars, lcVars, status_, solver,
                 shared_places, shared_removed, shared_latest_places, graphVars,
                 privVars, histVars, cyc>>

\* line 443
ShouldOptimize == have_graph_updates /\ optimize_on_lc_ /\ have_loopclosures_

\* line 446
ShouldRefresh_Always == TRUE
ShouldRefresh == call_update_periodically_

\* lines 443-446: the branch of the private critical section
Decide ==
  /\ pc = "decide"
  /\ pc' = IF ShouldOptimize THEN "opt_lock"
           ELSE IF ShouldRefresh THEN "ref_lock"
           ELSE "private_unlock"
  /\ UNCHANGED <<cfgVars, layerVars, vizVars, dangling, removed_ids, localVars, lockVars, bufVars, meshVars, lcVars, status_,
                 solver, sharedVars, graphVars, privVars, histVars, cyc>>

\* ------------------------------------------------- DsgBackend::updateDsgMesh
\* lines 588-618 as a function of the mesh members: what the call leaves in
\* have_new_mesh_, in the private graph's mesh and its updated flag, and whether
\* deformMesh ran
updateDsgMesh_DeformEmpty ==
  IF latest_mesh_ = Null \/ ~have_new_mesh_
    THEN [have_new |-> have_new_mesh_, mesh |-> private_mesh,
          updated |-> private_updated, deform |-> FALSE]
    ELSE [have_new |-> FALSE, mesh |-> Some(latest_mesh_[1]),
          updated |-> TRUE, deform |-> TRUE]

updateDsgMesh ==
  IF latest_mesh_ = Null \/ ~have_new_mesh_
    THEN [have_new |-> have_new_mesh_, mesh |-> private_mesh,
          updated |-> private_updated, deform |-> FALSE]
    ELSE IF latest_mesh_[1] = 0
      THEN [have_new |-> FALSE, mesh |-> private_mesh,
            updated |-> private_updated, deform |-> FALSE]
      ELSE [have_new |-> FALSE, mesh |-> Some(latest_mesh_[1]),
            updated |-> TRUE, deform |-> TRUE]

\* the call of updateDsgMesh at lines 448 and 638
MeshStep(from, to) ==
  /\ pc = from
  /\ pc' = to
  /\ LET r == updateDsgMesh IN
       /\ have_new_mesh_' = r.have_new
       /\ private_mesh' = r.mesh
       /\ private_updated' = r.updated
       /\ cyc' = [cyc EXCEPT !.mesh_refresh = @ + 1,
                             !.mesh_in = IF have_new_mesh_ THEN latest_mesh_ ELSE Null,
                             !.mesh_before = private_mesh,
                             !.deform_calls = @ + (IF r.deform THEN 1 ELSE 0),
                             !.solver_work = @ \/ r.deform]
  /\ UNCHANGED <<cfgVars, layerVars, vizVars, dangling, removed_ids, localVars, lockVars, bufVars, latest_mesh_, lcVars, status_,
                 solver, sharedVars, graphVars, private_latest_places,
                 shared_places_copy_, unlabeled_place_nodes_, histVars>>

\* ------------------------------------------- DsgBackend::callUpdateFunctions
\* the reconcilers, in the order the constructor registered them (lines 174-188)
dsg_update_funcs_RoomsBeforePlaces ==
  <<"agents", "objects", "rooms", "places", "buildings">>
dsg_update_funcs_ == <<"agents", "objects", "places", "rooms", "buildings">>

RECURSIVE callUpdateFunctions(_, _)
\* lines 648-651: the loop over dsg_update_funcs_, as the sequence of the calls
\* it makes after the calls made so far
callUpdateFunctions(funcs, calls) ==
  IF funcs = <<>> THEN calls
  ELSE callUpdateFunctions(Tail(funcs), Append(calls, Head(funcs)))

\* what a run of the reconcilers may do to the layers followed here: with node
\* merging enabled a place may be merged into another and leave the places layer
\* (the positions they write are not followed: the room finder, which runs later
\* in the cycle, leaves any positions in the rooms layer)
MergedAway ==
  {{}} \cup (IF enable_node_merging_
               THEN {{p} : p \in {q \in private_places : private_places # {q}}}
               ELSE {})

\* lines 646-652, followed by the end of the pgmo_lock scope (450 / 644)
UpdateStep(from) ==
  /\ pc = from
  /\ pc' = "private_unlock"
  /\ pgmo_mutex_' = "free"
  /\ \E gone \in MergedAway :
       /\ private_places' = private_places \ gone
       /\ place_parent' = KeepParents(place_parent, private_places')
       /\ tracked' = Follow(tracked, private_places', place_parent')
  /\ cyc' = [cyc EXCEPT !.pipeline_runs = @ + 1,
                        !.update_calls = callUpdateFunctions(dsg_update_funcs_, @),
                        !.update_locked = @ /\ private_mutex = "backend"]
  /\ UNCHANGED <<cfgVars, layerVars, vizVars, dangling, removed_ids, localVars, lcd_mutex, private_mutex, shared_mutex, bufVars,
                 meshVars, lcVars, status_, solver, sharedVars, rooms, buildings,
                 privVars, arrived, pushed, popped, merged_latest>>

\* ------------------------------------------------------ DsgBackend::optimize
\* line 628
OptLock ==
  /\ pc = "opt_lock"
  /\ pgmo_mutex_ = "free"
  /\ pgmo_mutex_' = "backend"
  /\ pc' = "opt_places"
  /\ UNCHANGED <<cfgVars, layerVars, vizVars, dangling, removed_ids, localVars, lcd_mutex, private_mutex, shared_mutex, bufVars,
                 meshVars, lcVars, status_, solver, sharedVars, graphVars, privVars,
                 histVars, cyc>>

\* the end nodes of an edge, the smaller first
EdgeSource(e) == CHOOSE a \in e : \A b \in e : a <= b
EdgeTarget(e) == CHOOSE b \in e : \A a \in e : a <= b

\* the weight of an edge is the distance of its end nodes; place n lies at n
EdgeWeight(e) == EdgeTarget(e) - EdgeSource(e)

\* the lightest edge, ties broken by the end nodes
MinEdge(es) ==
  CHOOSE e \in es : \A f \in es :
    \/ EdgeWeight(e) < EdgeWeight(f)
    \/ /\ EdgeWeight(e) = EdgeWeight(f)
       /\ \/ EdgeSource(e) < EdgeSource(f)
          \/ EdgeSource(e) = EdgeSource(f) /\ EdgeTarget(e) <= EdgeTarget(f)

RECURSIVE Kruskal(_, _, _)
\* the edges in the order of their weight: one that joins two components goes
\* into the tree
Kruskal(es, comp, tree) ==
  IF es = {} THEN tree
  ELSE LET e == MinEdge(es)
           a == EdgeSource(e)
           b == EdgeTarget(e)
       IN  IF comp[a] = comp[b]
             THEN Kruskal(es \ {e}, comp, tree)
             ELSE Kruskal(es \ {e},
                          [n \in DOMAIN comp |->
                             IF comp[n] = comp[b] THEN comp[a] ELSE comp[n]],
                          tree \cup {e})

\* getMinimumSpanningEdges: the spanning edges of a places layer and its leaves,
\* the nodes with exactly one spanning edge
getMinimumSpanningEdges(nodes, layer_edges) ==
  LET tree == Kruskal({e \in layer_edges : e \subseteq nodes},
                      [n \in nodes |-> n], {})
  IN  [edges |-> tree,
       leaves |-> {n \in nodes : Cardinality({e \in tree : n \in e}) = 1}]

\* DsgBackend::addPlacesToDeformationGraph (515-554): nothing with an empty places
\* copy; otherwise the temporary structures are cleared, a temporary node is added
\* for every place of the copy, a valence for every leaf of the spanning tree that
\* has mesh connections, and a temporary between-factor for every spanning edge
addPlacesToDeformationGraph_ValenceForAll(sv) ==
  IF shared_places_copy_ = {} THEN sv
  ELSE LET mst_info == getMinimumSpanningEdges(shared_places_copy_, copy_edges)
       IN  [sv EXCEPT !.temp_nodes = shared_places_copy_,
                      !.temp_valences =
                         {n \in shared_places_copy_ : n \in pcl_mesh_connections},
                      !.temp_betweens = mst_info.edges]

addPlacesToDeformationGraph(sv) ==
  IF shared_places_copy_ = {} THEN sv
  ELSE LET mst_info == getMinimumSpanningEdges(shared_places_copy_, copy_edges)
       IN  [sv EXCEPT !.temp_nodes = shared_places_copy_,
                      !.temp_valences =
                         {n \in shared_places_copy_ :
                            n \in mst_info.leaves /\ n \in pcl_mesh_connections},
                      !.temp_betweens = mst_info.edges]

\* lines 629-631
OptAddPlaces ==
  /\ pc = "opt_places"
  /\ pc' = "opt_solve"
  /\ solver' = IF add_places_to_deformation_graph_
                 THEN addPlacesToDeformationGraph(solver) ELSE solver
  /\ cyc' = [cyc EXCEPT !.solver_work =
               @ \/ (add_places_to_deformation_graph_ /\ shared_places_copy_ # {})]
  /\ UNCHANGED <<cfgVars, layerVars, vizVars, dangling, removed_ids, localVars, lockVars, bufVars, meshVars, lcVars, status_,
                 sharedVars, graphVars, privVars, histVars>>

\* line 635: deformation_graph_->optimize()
OptSolve ==
  /\ pc = "opt_solve"
  /\ pc' = "opt_mesh"
  /\ cyc' = [cyc EXCEPT !.optimize_runs = @ + 1, !.solver_work = TRUE]
  /\ UNCHANGED <<cfgVars, layerVars, vizVars, dangling, removed_ids, localVars, lockVars, bufVars, meshVars, lcVars, status_,
                 solver, sharedVars, graphVars, privVars, histVars>>

\* line 638
OptMesh == MeshStep("opt_mesh", "opt_update")

\* lines 640-644
OptUpdate == UpdateStep("opt_update")

\* ------------------------------------ the periodic refresh, lines 446-450
RefLock ==
  /\ pc = "ref_lock"
  /\ pgmo_mutex_ = "free"
  /\ pgmo_mutex_' = "backend"
  /\ pc' = "ref_mesh"
  /\ UNCHANGED <<cfgVars, layerVars, vizVars, dangling, removed_ids, localVars, lcd_mutex, private_mutex, shared_mutex, bufVars,
                 meshVars, lcVars, status_, solver, sharedVars, graphVars, privVars,
                 histVars, cyc>>

RefMesh == MeshStep("ref_mesh", "ref_update")

RefUpdate == UpdateStep("ref_update")

\* lines 451-456: the flag is set, the private lock released, the status logged
PrivateUnlock ==
  /\ pc = "private_unlock"
  /\ private_updated' = TRUE
  /\ private_mutex' = "free"
  /\ pc' = "rooms"
  /\ UNCHANGED <<cfgVars, layerVars, vizVars, dangling, removed_ids, localVars, pgmo_mutex_, lcd_mutex, shared_mutex, bufVars,
                 meshVars, lcVars, status_, solver, sharedVars, graphVars,
                 private_latest_places, private_mesh, shared_places_copy_,
                 unlabeled_place_nodes_, histVars, cyc>>

\* ------------------------------------------------- room / building maintenance
\* Node::children() of a room: the places whose parent it is
Children(r) == {p \in private_places : place_parent[p] = r}

\* DsgBackend::getNodesForRoomDetection (654-677)
getNodesForRoomDetection_NoUnlabeled(latest_places) ==
  latest_places \cup UNION {Children(r) : r \in DOMAIN rooms}

getNodesForRoomDetection(latest_places) ==
  LET active_places == latest_places
      with_children == active_places \cup UNION {Children(r) : r \in DOMAIN rooms}
  IN  with_children \cup {n \in unlabeled_place_nodes_ : n \in private_places}

\* DsgBackend::storeUnlabeledPlaces (679-696)
storeUnlabeledPlaces_Accumulate(active_nodes) ==
  unlabeled_place_nodes_ \cup
    {n \in active_nodes : n \in private_places /\ place_parent[n] = 0}

storeUnlabeledPlaces(active_nodes) ==
  {n \in active_nodes : n \in private_places /\ place_parent[n] = 0}

\* lines 699-704: with a room finder, the active places are collected under the
\* private lock; without one the room maintenance is skipped
UpdateRoomsNodes ==
  /\ pc = "rooms"
  /\ IF room_finder_
       THEN /\ private_mutex = "free"
            /\ active_place_nodes' = getNodesForRoomDetection(private_latest_places)
            /\ tracked' = tracked \cup
                 Follow(active_place_nodes', private_places, place_parent)
            /\ cyc' = [cyc EXCEPT !.active_handed = TRUE]
            /\ pc' = "find_rooms"
       ELSE /\ pc' = "building"
            /\ UNCHANGED <<active_place_nodes, tracked, cyc>>
  /\ UNCHANGED <<cfgVars, layerVars, vizVars, dangling, removed_ids, have_graph_updates, prev_loop_closures,
                 have_frontend_updates, lockVars, bufVars, meshVars, lcVars, status_,
                 solver, sharedVars, graphVars, privVars, arrived, pushed,
                 popped, merged_latest>>

\* line 705, RoomFinder::findRooms: the rooms layer is rebuilt from the active
\* places. Every room it leaves has a member place; an active place gets a room or
\* none; a place that is not active keeps its room while that room exists
FindRooms ==
  /\ pc = "find_rooms"
  /\ private_mutex = "free"
  /\ \E D \in SUBSET Rooms :
       /\ Cardinality(D) <= Cardinality(private_places)
       /\ \E np \in [Places -> {0} \cup D] :
            /\ \A p \in Places \ private_places : np[p] = 0
            /\ \A p \in private_places \ active_place_nodes :
                 np[p] = IF place_parent[p] \in D THEN place_parent[p] ELSE 0
            /\ \A r \in D : \E p \in private_places : np[p] = r
            /\ place_parent' = np
            /\ tracked' = Follow(tracked, private_places, np)
       /\ \E nr \in [D -> Positions] : rooms' = nr
  /\ pc' = "store_unlabeled"
  /\ UNCHANGED <<cfgVars, layerVars, vizVars, dangling, removed_ids, localVars, lockVars, bufVars, meshVars, lcVars, status_,
                 solver, sharedVars, private_places, buildings, privVars, arrived,
                 pushed, popped, merged_latest, cyc>>

\* line 706
StoreUnlabeled ==
  /\ pc = "store_unlabeled"
  /\ private_mutex = "free"
  /\ unlabeled_place_nodes_' = storeUnlabeledPlaces(active_place_nodes)
  /\ pc' = "building"
  /\ UNCHANGED <<cfgVars, layerVars, vizVars, dangling, removed_ids, localVars, lockVars, bufVars, meshVars, lcVars, status_,
                 solver, sharedVars, graphVars, private_latest_places, private_mesh,
                 private_updated, shared_places_copy_, histVars, cyc>>

\* NodeSymbol('B', 0), line 711
building_node_id == 0

RECURSIVE SumPositions(_, _)
SumPositions(layer, ids) ==
  IF ids = {} THEN 0
  ELSE LET r == CHOOSE x \in ids : TRUE
       IN  layer[r] + SumPositions(layer, ids \ {r})

\* lines 724-728: the sum of the room positions over their number, as a fraction
Centroid(layer) ==
  [num |-> SumPositions(layer, DOMAIN layer), den |-> Cardinality(DOMAIN layer)]

\* DsgBackend::updateBuildingNode (710-741) as a function of the two layers
updateBuildingNode_KeepWhenEmpty(rooms_layer, blds) ==
  IF DOMAIN rooms_layer = {} THEN blds
  ELSE (building_node_id :> Centroid(rooms_layer))

updateBuildingNode_NoUpdateInPlace(rooms_layer, blds) ==
  IF DOMAIN rooms_layer = {} THEN <<>>
  ELSE IF building_node_id \notin DOMAIN blds
    THEN (building_node_id :> Centroid(rooms_layer))
    ELSE blds

updateBuildingNode(rooms_layer, blds) ==
  IF DOMAIN rooms_layer = {}
    THEN [b \in DOMAIN blds \ {building_node_id} |-> blds[b]]
    ELSE IF building_node_id \notin DOMAIN blds
      THEN (building_node_id :> Centroid(rooms_layer)) @@ blds
      ELSE [blds EXCEPT ![building_node_id] = Centroid(rooms_layer)]

\* line 459
UpdateBuildingNode ==
  /\ pc = "building"
  /\ private_mutex = "free"
  /\ buildings' = updateBuildingNode(rooms, buildings)
  /\ removed_ids' = removed_ids \cup (DOMAIN buildings \ DOMAIN buildings')
  /\ pc' = "sleep"
  /\ UNCHANGED <<cfgVars, layerVars, vizVars, dangling, localVars, lockVars, bufVars, meshVars, lcVars, status_,
                 solver, sharedVars, private_places, place_parent, rooms, privVars,
                 histVars, cyc>>

\* line 460 and the end of the loop body: the locals go out of scope
Sleep ==
  /\ pc = "sleep"
  /\ pc' = "loop"
  /\ have_graph_updates' = FALSE
  /\ active_place_nodes' = {}
  /\ UNCHANGED <<cfgVars, layerVars, vizVars, dangling, removed_ids, prev_loop_closures, have_frontend_updates, lockVars,
                 bufVars, meshVars, lcVars, status_, solver, sharedVars, graphVars,
                 privVars, histVars, cyc>>

\* ------------------------------------------------------------- the front end
\* the front end adds a place to the shared graph under the shared lock and
\* raises the updated flag; an identifier is used once
FrontEndAddPlace ==
  /\ shared_mutex = "free"
  /\ \E p \in Places \ (shared_places \cup shared_removed) :
       /\ shared_places' = shared_places \cup {p}
       /\ \E latest \in {shared_latest_places \cup {p}, {p}} :
            shared_latest_places' = latest
  /\ shared_updated' = TRUE
  /\ UNCHANGED <<cfgVars, layerVars, vizVars, dangling, removed_ids, pc, localVars, lockVars, bufVars, meshVars, lcVars, status_,
                 solver, shared_removed, graphVars, privVars, histVars, cyc>>

\* the front end removes a place from the shared graph
FrontEndRemovePlace ==
  /\ shared_mutex = "free"
  /\ \E p \in shared_places :
       /\ shared_places' = shared_places \ {p}
       /\ shared_removed' = shared_removed \cup {p}
  /\ shared_updated' = TRUE
  /\ UNCHANGED <<cfgVars, layerVars, vizVars, dangling, removed_ids, pc, localVars, lockVars, bufVars, meshVars, lcVars, status_,
                 solver, shared_latest_places, graphVars, privVars, histVars, cyc>>

\* the front end changes attributes of the shared graph under the shared lock and
\* raises the updated flag, without adding or removing a place
FrontEndTouch ==
  /\ shared_mutex = "free"
  /\ ~shared_updated
  /\ shared_updated' = TRUE
  /\ UNCHANGED <<cfgVars, layerVars, vizVars, dangling, removed_ids, pc, localVars, lockVars,
                 bufVars, meshVars, lcVars, status_, solver, shared_places,
                 shared_removed, shared_latest_places, graphVars, privVars, histVars,
                 cyc>>

\* =================================================== DsgBackend::runVisualizer
\* what no step of the render thread or of the destructor touches
BackendState ==
  <<cfgVars, pc, localVars, pgmo_mutex_, lcd_mutex, bufVars, meshVars, lcVars,
    status_, solver, sharedVars, graphVars, private_latest_places, private_mesh,
    shared_places_copy_, unlabeled_place_nodes_, histVars, cyc, dangling,
    removed_ids, layerVars>>

\* line 293: the loop test
VizLoopTest ==
  /\ viz_pc = "top"
  /\ viz_pc' = IF should_shutdown_ THEN "exited" ELSE "callbacks"
  /\ UNCHANGED <<BackendState, private_mutex, shared_mutex, private_updated,
                 should_shutdown_, dtor_pc, visualizer_should_reset_,
                 visualizer_show_frontend_>>

\* setVisualizeFrontend (271-279) and setVisualizeBackend (281-289), by the
\* service request req
setVisualize(req) ==
  [reset |-> IF req = "frontend" /\ ~visualizer_show_frontend_ THEN TRUE
             ELSE IF req = "backend" /\ visualizer_show_frontend_ THEN TRUE
             ELSE visualizer_should_reset_,
   show |-> IF req = "frontend" THEN TRUE
            ELSE IF req = "backend" THEN FALSE
            ELSE visualizer_show_frontend_]

\* line 295: the service callbacks that are waiting run in the render thread
VizCallbacks ==
  /\ viz_pc = "callbacks"
  /\ \E req \in {"none", "frontend", "backend"} :
       /\ visualizer_should_reset_' = setVisualize(req).reset
       /\ visualizer_show_frontend_' = setVisualize(req).show
  /\ viz_pc' = "reset"
  /\ UNCHANGED <<BackendState, private_mutex, shared_mutex, private_updated,
                 should_shutdown_, dtor_pc>>

\* the graph lock the render thread takes: lines 298-302 and 316-320
VizTakeLock ==
  IF visualizer_show_frontend_
    THEN /\ shared_mutex = "free"
         /\ shared_mutex' = "visualizer"
         /\ UNCHANGED private_mutex
    ELSE /\ private_mutex = "free"
         /\ private_mutex' = "visualizer"
         /\ UNCHANGED shared_mutex

\* the end of the scope of that lock
VizReleaseLock ==
  /\ shared_mutex' = IF shared_mutex = "visualizer" THEN "free" ELSE shared_mutex
  /\ private_mutex' = IF private_mutex = "visualizer" THEN "free" ELSE private_mutex

\* lines 297-302
VizResetLock ==
  /\ viz_pc = "reset"
  /\ IF visualizer_should_reset_
       THEN VizTakeLock /\ viz_pc' = "reset_held"
       ELSE viz_pc' = "flag" /\ UNCHANGED <<private_mutex, shared_mutex>>
  /\ UNCHANGED <<BackendState, private_updated, should_shutdown_, dtor_pc,
                 visualizer_should_reset_, visualizer_show_frontend_>>

\* lines 300-305: setGraph, the end of the lock scope, the flag
VizResetDone ==
  /\ viz_pc = "reset_held"
  /\ VizReleaseLock
  /\ visualizer_should_reset_' = FALSE
  /\ viz_pc' = "flag"
  /\ UNCHANGED <<BackendState, private_updated, should_shutdown_, dtor_pc,
                 visualizer_show_frontend_>>

\* lines 309-314: private_dsg_->updated is read and cleared, with no lock held
VizClearUpdated ==
  /\ viz_pc = "flag"
  /\ private_updated' = IF private_updated THEN FALSE ELSE private_updated
  /\ viz_pc' = "redraw"
  /\ UNCHANGED <<BackendState, private_mutex, shared_mutex, should_shutdown_,
                 dtor_pc, visualizer_should_reset_, visualizer_show_frontend_>>

\* lines 316-320
VizRedrawLock ==
  /\ viz_pc = "redraw"
  /\ VizTakeLock
  /\ viz_pc' = "redraw_held"
  /\ UNCHANGED <<BackendState, private_updated, should_shutdown_, dtor_pc,
                 visualizer_should_reset_, visualizer_show_frontend_>>

\* lines 318-322: redraw and the end of the lock scope
VizRedrawDone ==
  /\ viz_pc = "redraw_held"
  /\ VizReleaseLock
  /\ viz_pc' = "sleep"
  /\ UNCHANGED <<BackendState, private_updated, should_shutdown_, dtor_pc,
                 visualizer_should_reset_, visualizer_show_frontend_>>

\* line 324
VizSleep ==
  /\ viz_pc = "sleep"
  /\ viz_pc' = "top"
  /\ UNCHANGED <<BackendState, private_mutex, shared_mutex, private_updated,
                 should_shutdown_, dtor_pc, visualizer_should_reset_,
                 visualizer_show_frontend_>>

runVisualizer ==
  \/ VizLoopTest \/ VizCallbacks \/ VizResetLock \/ VizResetDone
  \/ VizClearUpdated \/ VizRedrawLock \/ VizRedrawDone \/ VizSleep

\* ===================================================== DsgBackend::~DsgBackend
\* line 221 (history: where the backend thread is at that moment)
Shutdown ==
  /\ dtor_pc = "alive"
  /\ should_shutdown_' = TRUE
  /\ dtor_pc' = "join_visualizer"
  /\ cyc' = [cyc EXCEPT !.shutdown_at =
                          IF pc = "opt_solve" THEN "opt_solve" ELSE "elsewhere"]
  /\ UNCHANGED <<cfgVars, layerVars, pc, localVars, lockVars, bufVars, meshVars,
                 lcVars, status_, solver, sharedVars, graphVars, privVars, histVars,
                 dangling, removed_ids, viz_pc, visualizer_should_reset_,
                 visualizer_show_frontend_>>

\* lines 224-226: join() returns when the render thread has ended
JoinVisualizer ==
  /\ dtor_pc = "join_visualizer"
  /\ viz_pc \in {"none", "exited"}
  /\ dtor_pc' = "join_optimizer"
  /\ UNCHANGED <<BackendState, private_mutex, shared_mutex, private_updated, viz_pc,
                 should_shutdown_, visualizer_should_reset_,
                 visualizer_show_frontend_>>

JoinOptimizer_NoWait ==
  /\ dtor_pc = "join_optimizer"
  /\ dtor_pc' = "done"
  /\ UNCHANGED <<BackendState, private_mutex, shared_mutex, private_updated, viz_pc,
                 should_shutdown_, visualizer_should_reset_,
                 visualizer_show_frontend_>>

\* lines 230-232
JoinOptimizer ==
  /\ dtor_pc = "join_optimizer"
  /\ pc = "exited"
  /\ dtor_pc' = "done"
  /\ UNCHANGED <<BackendState, private_mutex, shared_mutex, private_updated, viz_pc,
                 should_shutdown_, visualizer_should_reset_,
                 visualizer_show_frontend_>>

Destructor == Shutdown \/ JoinVisualizer \/ JoinOptimizer

\* ============================================================ save services
\* DsgBackend::saveMeshCallback, lines 492-493: the service thread takes the lock
\* of the private graph and copies the mesh
SaveMeshLock ==
  /\ private_mutex = "free"
  /\ private_mutex' = "save_mesh"
  /\ UNCHANGED <<cfgVars, layerVars, vizVars, dangling, removed_ids, pc, localVars,
                 pgmo_mutex_, lcd_mutex, shared_mutex, bufVars, meshVars, lcVars,
                 status_, solver, sharedVars, graphVars, privVars, histVars, cyc>>

\* line 495: the end of the lock scope; the file is written with no lock held
SaveMeshUnlock ==
  /\ private_mutex = "save_mesh"
  /\ private_mutex' = "free"
  /\ UNCHANGED <<cfgVars, layerVars, vizVars, dangling, removed_ids, pc, localVars,
                 pgmo_mutex_, lcd_mutex, shared_mutex, bufVars, meshVars, lcVars,
                 status_, solver, sharedVars, graphVars, privVars, histVars, cyc>>

saveMeshCallback == SaveMeshLock \/ SaveMeshUnlock

\* DsgBackend::saveTrajectoryCallback, lines 505-506: the service thread takes
\* pgmo_mutex_ and reads the optimized trajectory
SaveTrajectoryLock ==
  /\ pgmo_mutex_ = "free"
  /\ pgmo_mutex_' = "save_trajectory"
  /\ UNCHANGED <<cfgVars, layerVars, vizVars, dangling, removed_ids, pc, localVars,
                 lcd_mutex, private_mutex, shared_mutex, bufVars, meshVars, lcVars,
                 status_, solver, sharedVars, graphVars, privVars, histVars, cyc>>

\* line 508: the end of the lock scope
SaveTrajectoryUnlock ==
  /\ pgmo_mutex_ = "save_trajectory"
  /\ pgmo_mutex_' = "free"
  /\ UNCHANGED <<cfgVars, layerVars, vizVars, dangling, removed_ids, pc, localVars,
                 lcd_mutex, private_mutex, shared_mutex, bufVars, meshVars, lcVars,
                 status_, solver, sharedVars, graphVars, privVars, histVars, cyc>>

saveTrajectoryCallback == SaveTrajectoryLock \/ SaveTrajectoryUnlock

\* ------------------------------------------------------------ specifications
pushLoopClosure == PushCandidate(MaxLC)

pushLoopClosureRooms == PushCandidate(MaxLCRooms)

Backend ==
  \/ CycleStart \/ PgmoLock \/ DrainMeshFactors \/ DrainPoseFactors
  \/ LcdLock \/ LcdPop \/ LcdDone
  \/ PrivateLock \/ UpdatePrivateDsgMerge \/ UpdatePrivateDsgClear \/ Decide
  \/ OptLock \/ OptAddPlaces \/ OptSolve \/ OptMesh \/ OptUpdate
  \/ RefLock \/ RefMesh \/ RefUpdate
  \/ PrivateUnlock
  \/ UpdateRoomsNodes \/ FindRooms \/ StoreUnlabeled \/ UpdateBuildingNode \/ Sleep

\* the backend with the producers of factor messages and loop closures
Next ==
  \/ Backend
  \/ deformationGraphCallback \/ poseGraphCallback
  \/ pushLoopClosure

Spec == Init /\ [][Next]_vars

\* the backend with a front end that edits the shared graph
InitRooms ==
  /\ optimize_on_lc_ = TRUE
  /\ call_update_periodically_ = TRUE
  /\ enable_node_merging_ = TRUE
  /\ add_places_to_deformation_graph_ = TRUE
  /\ room_finder_ \in BOOLEAN
  /\ NoVisualizer
  /\ InitState

NextRooms ==
  \/ Backend
  \/ FrontEndAddPlace \/ FrontEndRemovePlace
  \/ pushLoopClosureRooms

SpecRooms == InitRooms /\ [][NextRooms]_vars

\* the backend with inputs that may be unusable: a full mesh without vertices,
\* a loop-closure candidate between nodes the shared graph does not hold
InitFaults ==
  /\ optimize_on_lc_ = TRUE
  /\ call_update_periodically_ \in BOOLEAN
  /\ enable_node_merging_ = TRUE
  /\ add_places_to_deformation_graph_ = TRUE
  /\ room_finder_ = TRUE
  /\ NoVisualizer
  /\ InitState

pushDanglingLoopClosure == PushDanglingCandidate(MaxLC)

NextFaults ==
  \/ Backend
  \/ fullMeshCallback
  \/ pushLoopClosure \/ pushDanglingLoopClosure

SpecFaults == InitFaults /\ [][NextFaults]_vars

\* start(): the backend thread and the render thread, a front end, and the
\* destructor at any moment
InitViz ==
  /\ optimize_on_lc_ = TRUE
  /\ call_update_periodically_ = TRUE
  /\ enable_node_merging_ = TRUE
  /\ add_places_to_deformation_graph_ = TRUE
  /\ room_finder_ = TRUE
  /\ viz_pc = "top"
  /\ visualizer_should_reset_ = TRUE
  /\ visualizer_show_frontend_ \in BOOLEAN
  /\ InitState

runPgmo == Backend \/ BackendExit

NextViz ==
  \/ runPgmo
  \/ runVisualizer
  \/ Destructor
  \/ FrontEndTouch
  \/ pushLoopClosureRooms

SpecViz == InitViz /\ [][NextViz]_vars

\* the scheduler runs every thread that can take a step, and a join waits no
\* longer than its thread
FairSpecViz ==
  /\ SpecViz
  /\ WF_vars(runPgmo)
  /\ WF_vars(runVisualizer)
  /\ WF_vars(JoinVisualizer \/ JoinOptimizer)

\* =================================================================== claims
\* the positions of runPgmo after the pgmo critical section
AfterDrain ==
  pc \in {"private_lock", "merge", "clear_flag", "decide", "opt_lock", "opt_places",
          "opt_solve", "opt_mesh", "opt_update", "ref_lock", "ref_mesh", "ref_update",
          "private_unlock", "rooms", "find_rooms", "store_unlabeled", "building",
          "sleep"}

\* the positions after the branch of the private critical section is over
AfterBranch ==
  pc \in {"private_unlock", "rooms", "find_rooms", "store_unlabeled", "building",
          "sleep"}

\* an accumulator holds exactly the messages ms, concatenated in arrival order
Holds(acc, ms) ==
  IF ms = <<>> THEN acc = Null
  ELSE /\ acc # Null
       /\ acc[1].nodes = ConcatNodes(ms)
       /\ acc[1].edges = ConcatEdges(ms)

\* C1: each accumulator holds, whenever a cycle drains it, exactly the nodes and
\* edges of the messages ingested since the previous drain, in arrival order; once
\* both drains are over, both accumulators are empty.
C1_DrainIsConcatenation ==
  /\ Holds(deformation_graph_updates_, arrived.dg)
  /\ Holds(pose_graph_updates_, arrived.pg)
  /\ pc \in {"lcd_lock", "lcd_loop"} =>
       deformation_graph_updates_ = Null /\ pose_graph_updates_ = Null

\* a drain is about to take an accumulator that two messages were merged into
C1_Witness ==
  /\ pc = "mesh_factors"
  /\ Len(arrived.dg) >= 2
  /\ Len(deformation_graph_updates_[1].nodes) >= 2

\* a factor went to the solver in this cycle
FactorAdded == cyc.drained_mesh \/ cyc.drained_pose \/ cyc.popped > 0

\* C2: a cycle runs optimize() if and only if a factor was added in the cycle,
\* optimize_on_lc_ is enabled and a loop closure was accepted so far.
C2_OptimizeIff ==
  AfterBranch =>
    ((cyc.optimize_runs > 0) <=>
       (FactorAdded /\ optimize_on_lc_ /\ num_loop_closures_ > 0))

\* C3: optimize runs at most once in a cycle, and a cycle that found nothing
\* pending and nothing queued, with periodic updates disabled, does no solver work.
C3_NoWorkWhenIdle ==
  /\ cyc.optimize_runs <= 1
  /\ (AfterDrain /\ ~FactorAdded /\ ~call_update_periodically_) =>
       (~cyc.solver_work /\ cyc.optimize_runs = 0 /\ cyc.pipeline_runs = 0)

\* what a cycle that did not optimize has done once its branch is over
RefreshAsConfigured ==
  (AfterBranch /\ cyc.optimize_runs = 0) =>
    IF call_update_periodically_
      THEN cyc.mesh_refresh = 1 /\ cyc.pipeline_runs = 1
      ELSE cyc.mesh_refresh = 0 /\ cyc.pipeline_runs = 0 /\ ~cyc.deform_calls > 0

\* the state every cycle starts from: a cleared status record and history, the
\* loop-closure count remembered, and no mutex held by the backend
FreshCycle ==
  pc = "pgmo_lock" =>
    /\ status_ = StatusReset
    /\ prev_loop_closures = num_loop_closures_
    /\ cyc.optimize_runs = 0 /\ cyc.mesh_refresh = 0 /\ cyc.pipeline_runs = 0
    /\ \A m \in {pgmo_mutex_, lcd_mutex, private_mutex, shared_mutex} : m # "backend"

\* from the branch to the end of the cycle the backend thread can always take its
\* next step: it waits for no mutex that it holds itself or that is never released
CanProceed ==
  (pc \in {"decide", "ref_lock", "ref_mesh", "ref_update"} \/ AfterBranch) =>
    ENABLED Backend

InPushOrder(n) == [i \in 1..n |-> i]

\* C6: a call of addInternalLCDToDeformationGraph takes the candidates in queue
\* order, adds one between-factor for each in that order and returns with the
\* queue empty; a candidate is either in the solver or still queued.
C6_QueueDrainedInOrder ==
  /\ pc = "lcd_loop" => cyc.betweens_added \o loop_closures = cyc.queue_at_lock
  /\ AfterDrain => cyc.betweens_added = cyc.queue_at_lock
  /\ solver.betweens \o loop_closures = InPushOrder(pushed)

\* a call that found two candidates queued has returned
C6_Witness ==
  /\ pc = "private_lock"
  /\ Len(cyc.queue_at_lock) >= 2
  /\ Len(cyc.betweens_added) >= 2

\* C7: at the end of a cycle the building node exists exactly when the rooms
\* layer has a node, and the buildings layer has at most one node.
C7_BuildingIffRooms ==
  pc = "sleep" =>
    /\ (building_node_id \in DOMAIN buildings) <=> (DOMAIN rooms # {})
    /\ Cardinality(DOMAIN buildings) <= 1

\* a cycle that started with a building ends without rooms and without it
C7_Witness ==
  /\ pc = "sleep"
  /\ cyc.building_before
  /\ DOMAIN rooms = {}
  /\ DOMAIN buildings = {}

\* C8: at the end of a cycle the position of the building node, when it exists,
\* is the mean of the positions of the nodes of the rooms layer.
C8_BuildingAtCentroid ==
  (pc = "sleep" /\ building_node_id \in DOMAIN buildings) =>
    LET b == buildings[building_node_id] IN
    /\ b.den > 0
    /\ b.num * Cardinality(DOMAIN rooms) = b.den * SumPositions(rooms, DOMAIN rooms)

\* a building that existed before the cycle sits between two rooms
C8_Witness ==
  /\ pc = "sleep"
  /\ cyc.building_before
  /\ Cardinality(DOMAIN rooms) = 2
  /\ \E r1, r2 \in DOMAIN rooms : rooms[r1] # rooms[r2]
  /\ building_node_id \in DOMAIN buildings

\* C9: the set handed to findRooms is the children of the rooms, the latest
\* places of the last merge and the unlabeled places still in the places layer.
C9_ActiveSet ==
  pc = "find_rooms" =>
    \A p \in Places :
      p \in active_place_nodes <=>
        \/ \E r \in DOMAIN rooms : p \in private_places /\ place_parent[p] = r
        \/ p \in merged_latest
        \/ p \in unlabeled_place_nodes_ /\ p \in private_places

\* the set holds a room's child and a place that only the unlabeled set brings
C9_Witness ==
  /\ pc = "find_rooms"
  /\ \E p \in active_place_nodes : place_parent[p] # 0
  /\ \E p \in active_place_nodes :
       p \notin merged_latest /\ place_parent[p] = 0 /\ p \in private_places

\* C10: a place that was active without a parent, and has stayed in the places
\* layer without one, is in unlabeled_place_nodes_ outside the room maintenance and
\* in every active set; storeUnlabeledPlaces leaves exactly the active places that
\* are in the places layer and have no parent.
C10_UnlabeledRetried ==
  /\ pc \notin {"find_rooms", "store_unlabeled"} => tracked \subseteq unlabeled_place_nodes_
  /\ pc \in {"find_rooms", "store_unlabeled"} => tracked \subseteq active_place_nodes
  /\ (pc = "building" /\ room_finder_) =>
       unlabeled_place_nodes_ =
         {p \in Places : /\ p \in active_place_nodes
                         /\ p \in private_places
                         /\ place_parent[p] = 0}

\* a place left without a parent is handed to findRooms again, by the unlabeled
\* set alone, while another place got a room
C10_Witness ==
  /\ pc = "find_rooms"
  /\ \E p \in tracked : p \in unlabeled_place_nodes_ /\ p \notin private_latest_places
  /\ \E q \in private_places : place_parent[q] # 0

\* the backend's next step is a call into the deformation solver
SolverCallNext ==
  \/ pc = "mesh_factors" /\ deformation_graph_updates_ # Null
  \/ pc = "pose_factors" /\ pose_graph_updates_ # Null
  \/ pc = "lcd_loop" /\ loop_closures # <<>>
  \/ pc = "opt_solve"
  \/ pc \in {"opt_mesh", "ref_mesh"} /\ updateDsgMesh.deform

\* C11: the backend thread never holds pgmo_mutex_ while a solver call runs
\* (processIncrementalMeshGraph, processIncrementalPoseGraph, addNewBetween,
\* optimize, deformMesh), so a producer callback never waits for solver work.
C11_BufferLockNotAcrossSolver == SolverCallNext => pgmo_mutex_ # "backend"

\* C12: the solver's optimize step never runs while the backend thread holds the
\* private graph lock.
C12_SolveOutsideGraphLock == pc = "opt_solve" => private_mutex # "backend"

\* C13: the backend thread holds the shared-state lock only inside
\* updatePrivateDsg, between the merge and the end of its critical section, and
\* not when optimize(), updateDsgMesh() or callUpdateFunctions() start.
C13_SharedLockOnlyInMerge ==
  /\ shared_mutex = "backend" => pc = "clear_flag" /\ have_frontend_updates
  /\ pc \in {"decide", "opt_lock", "opt_places", "opt_solve", "opt_mesh",
             "opt_update", "ref_lock", "ref_mesh", "ref_update"} =>
       shared_mutex # "backend"

\* the merge is done under the shared lock in a cycle that is about to optimize
C13_Witness ==
  /\ pc = "clear_flag"
  /\ shared_mutex = "backend"
  /\ ShouldOptimize
  /\ private_places # {}

\* C14: no exception leaves the backend loop: a loop-closure candidate whose
\* from or to node is not in the shared graph is skipped, and the cycle and the
\* later cycles still run.
C14_NoExceptionEscapes == pc # "terminated"

\* the positions of a cycle after its call of updateDsgMesh
AfterMesh == pc \in {"opt_update", "ref_update"} \/ AfterBranch

\* C15: a latest mesh without vertices is dropped by updateDsgMesh: deformMesh is
\* not called, the mesh of the private graph stays as it was, have_new_mesh_ is
\* cleared, and the cycle goes on to the update pipeline and to its end.
C15_EmptyMeshDropped ==
  (AfterMesh /\ cyc.mesh_in = Some(0)) =>
    /\ cyc.deform_calls = 0
    /\ private_mesh = cyc.mesh_before
    /\ pc \in {"opt_update", "ref_update"} => ~have_new_mesh_
    /\ AfterBranch => cyc.pipeline_runs = 1
    /\ ENABLED Backend

\* a cycle that dropped an empty mesh, with an earlier mesh in the private graph,
\* has reached its end
C15_Witness ==
  /\ pc = "sleep"
  /\ cyc.mesh_in = Some(0)
  /\ private_mesh # Null
  /\ cyc.pipeline_runs = 1

\* C16: once a cycle has drained, new_factors_ is the number of edges of the
\* mesh-factor and pose-factor messages it drained and new_graph_factors_ that of
\* the mesh-factor messages alone; every cycle starts with both at zero.
C16_NewFactorsCountDrainedEdges ==
  /\ (pc \in {"lcd_lock", "lcd_loop"} \/ AfterDrain) =>
       /\ status_.new_factors_ = cyc.mesh_edges + cyc.pose_edges
       /\ status_.new_graph_factors_ = cyc.mesh_edges
  /\ pc = "pgmo_lock" =>
       status_.new_factors_ = 0 /\ status_.new_graph_factors_ = 0

\* a cycle drained a mesh-factor and a pose-factor message together
C16_Witness ==
  /\ pc = "private_lock"
  /\ cyc.mesh_edges = MaxEdges
  /\ cyc.pose_edges = MaxEdges
  /\ status_.new_factors_ = 2 * MaxEdges

\* C18: the identifier of a node that was removed from the private graph is
\* not given to a node again.
C18_IdsNeverReused == removed_ids \cap DOMAIN buildings = {}

\* the order of the reconcilers, by name
ReconcilerOrder == <<"agents", "objects", "places", "rooms", "buildings">>

\* C20: every run of the update pipeline, from optimize() or from the periodic
\* refresh, calls the reconcilers once each in the order agents, objects, places,
\* rooms, buildings, with the private graph lock held by the backend.
C20_PipelineOrder ==
  /\ Len(cyc.update_calls) = cyc.pipeline_runs * Len(ReconcilerOrder)
  /\ \A i \in 1..Len(cyc.update_calls) :
       cyc.update_calls[i] = ReconcilerOrder[((i - 1) % Len(ReconcilerOrder)) + 1]
  /\ cyc.update_locked
  /\ pc \in {"opt_update", "ref_update"} => private_mutex = "backend"

\* the pipeline has run at the end of optimize()
C20_Witness ==
  /\ pc = "private_unlock"
  /\ cyc.optimize_runs = 1
  /\ Len(cyc.update_calls) = Len(ReconcilerOrder)

\* the destructor has returned only with both threads over, and a cycle that was
\* at the solve when the flag was set has run its solve and its update pipeline
JoinedAfterExit ==
  /\ dtor_pc = "done" => pc = "exited" /\ viz_pc = "exited"
  /\ (pc = "exited" /\ cyc.shutdown_at = "opt_solve") =>
       cyc.optimize_runs = 1 /\ cyc.pipeline_runs = 1

\* a loop is left only from its top, and with the flag set no iteration starts
ExitAtTop ==
  /\ pc' = "exited" /\ pc # "exited" => pc = "loop" /\ should_shutdown_
  /\ viz_pc' = "exited" /\ viz_pc # "exited" => viz_pc = "top" /\ should_shutdown_
  /\ should_shutdown_ /\ pc = "loop" => pc' \in {"loop", "exited"}
  /\ should_shutdown_ /\ viz_pc = "top" => viz_pc' \in {"top", "exited"}

\* C17: once should_shutdown_ is set, the backend loop and the render loop finish
\* the iteration they are in, leave at the top of the next one, and the destructor
\* returns, after both threads are over.
C17_ShutdownJoins ==
  /\ []JoinedAfterExit
  /\ [][ExitAtTop]_vars
  /\ should_shutdown_ ~> dtor_pc = "done"

\* the destructor has returned after a shutdown that fell into a solve
C17_Witness ==
  /\ dtor_pc = "done"
  /\ cyc.shutdown_at = "opt_solve"
  /\ cyc.optimize_runs = 1

\* C19: a step of the render thread changes no field of the shared or of the
\* private state, and the render thread never holds both graph locks.
C19_RendererReadOnly ==
  /\ [][viz_pc' # viz_pc =>
         UNCHANGED <<sharedVars, loop_closures, graphVars, private_latest_places,
                     private_mesh, private_updated>>]_vars
  /\ [](~(private_mutex = "visualizer" /\ shared_mutex = "visualizer"))

\* every thread that takes one of the four locks: the backend loop, the render
\* loop, the ingestion callbacks, the save services, and the front end with its
\* loop-closure detector
InitLocks ==
  /\ optimize_on_lc_ = TRUE
  /\ call_update_periodically_ = TRUE
  /\ enable_node_merging_ = TRUE
  /\ add_places_to_deformation_graph_ = TRUE
  /\ room_finder_ = TRUE
  /\ viz_pc = "top"
  /\ visualizer_should_reset_ = TRUE
  /\ visualizer_show_frontend_ \in BOOLEAN
  /\ InitState

deformationGraphCallbackLocks == DeformationGraphMsg(MaxMsgsLocks)

poseGraphCallbackLocks == PoseGraphMsg(MaxMsgsLocks)

NextLocks ==
  \/ Backend
  \/ runVisualizer
  \/ deformationGraphCallbackLocks \/ poseGraphCallbackLocks \/ fullMeshCallback
  \/ saveMeshCallback \/ saveTrajectoryCallback
  \/ FrontEndTouch
  \/ pushLoopClosureRooms

SpecLocks == InitLocks /\ [][NextLocks]_vars

\* ------------------------------------------ the places copy handed to the solver
\* optimize() at its call of addPlacesToDeformationGraph (line 631), the private
\* graph and the buffers locked, with any places copy: nodes, edges between them,
\* nodes with mesh connections; the solver may hold temporaries of an earlier call
InitPlacesCopy ==
  /\ optimize_on_lc_ = TRUE
  /\ call_update_periodically_ = TRUE
  /\ enable_node_merging_ = TRUE
  /\ add_places_to_deformation_graph_ = TRUE
  /\ room_finder_ = TRUE
  /\ NoVisualizer
  /\ InitCommon
  /\ pc = "opt_places"
  /\ pgmo_mutex_ = "backend" /\ private_mutex = "backend"
  /\ shared_places_copy_ \in SUBSET LayerPlaces
  /\ copy_edges \in SUBSET {e \in SUBSET shared_places_copy_ : Cardinality(e) = 2}
  /\ pcl_mesh_connections \in SUBSET shared_places_copy_
  /\ \E old \in {{}, {1}} :
       solver = [betweens |-> <<>>, temp_nodes |-> old, temp_valences |-> old,
                 temp_betweens |-> {}]

NextPlacesCopy == OptAddPlaces

SpecPlacesCopy == InitPlacesCopy /\ [][NextPlacesCopy]_vars

\* C21: when the solver's optimize runs in an optimization step that adds the
\* places, the solver's temporary nodes are exactly the nodes of the places
\* snapshot, also when the snapshot is empty.
C21_TemporariesMatchSnapshot ==
  (pc = "opt_solve" /\ add_places_to_deformation_graph_) =>
    solver.temp_nodes = shared_places_copy_

\* C22: once an optimization step is past its mesh update, a latest mesh with
\* vertices has been deformed in that step, whether or not it was deformed before.
C22_OptimizeDeformsLatestMesh ==
  (pc = "opt_update" /\ latest_mesh_ # Null /\ latest_mesh_ # Some(0)) =>
    cyc.deform_calls = 1

\* the leaves and the edges of the spanning tree of the places copy
CopyTree == getMinimumSpanningEdges(shared_places_copy_, copy_edges)

\* addPlacesToDeformationGraph has just run on a places copy with nodes
PlacesAdded == pc = "opt_solve" /\ shared_places_copy_ # {}

\* C23 as stated: a call adds at most as many temporary nodes and at most as many
\* valences as the spanning tree has leaves, and exactly as many temporary
\* between-factors as the spanning tree has edges.
C23_TemporariesBoundedByLeaves ==
  PlacesAdded =>
    /\ Cardinality(solver.temp_nodes) <= Cardinality(CopyTree.leaves)
    /\ Cardinality(solver.temp_valences) <= Cardinality(CopyTree.leaves)
    /\ Cardinality(solver.temp_betweens) = Cardinality(CopyTree.edges)

\* the number of connected components of the places copy, counted without the
\* spanning tree: the nodes that are the smallest of the nodes they reach
RECURSIVE Reach(_, _)
Reach(ns, es) ==
  LET more == ns \cup UNION {e \in es : e \cap ns # {}}
  IN  IF more = ns THEN ns ELSE Reach(more, es)

Components(nodes, es) ==
  Cardinality({n \in nodes : \A m \in Reach({n}, es) : n <= m})

\* C23 amended: a call adds exactly one temporary node for every node of the places
\* copy, a valence only for leaves of the spanning tree that have mesh connections
\* (so at most one per leaf), and exactly one temporary between-factor per spanning
\* edge, which are as many as the nodes less the connected components.
C23_TemporariesPerNodeAndLeaf ==
  PlacesAdded =>
    /\ solver.temp_nodes = shared_places_copy_
    /\ solver.temp_valences \subseteq CopyTree.leaves \cap pcl_mesh_connections
    /\ Cardinality(solver.temp_valences) <= Cardinality(CopyTree.leaves)
    /\ solver.temp_betweens = CopyTree.edges
    /\ Cardinality(solver.temp_betweens) =
         Cardinality(shared_places_copy_) - Components(shared_places_copy_, copy_edges)

\* a path of three places, all with mesh connections: the middle one is no leaf
C23_Witness ==
  /\ PlacesAdded
  /\ Cardinality(shared_places_copy_) = 3
  /\ Cardinality(CopyTree.leaves) = 2
  /\ pcl_mesh_connections = shared_places_copy_
  /\ Cardinality(solver.temp_valences) = 2
  /\ Cardinality(solver.temp_betweens) = 2

\* both accumulators of the cycle were handed to the solver
BatchApplied == pc \in {"lcd_lock", "lcd_loop"} \/ AfterDrain

\* C24 as stated: the factors a cycle hands to the solver are in the order in which
\* their messages arrived, whatever the kind of the messages (an edge carries the
\* arrival number of its message).
C24_AppliedInArrivalOrder ==
  \A i, j \in 1..Len(cyc.applied) :
    i < j => cyc.applied[i][1] <= cyc.applied[j][1]

\* C24 amended: the factors a cycle hands to the solver are those of the
\* mesh-factor messages in their arrival order, followed by those of the
\* pose-factor messages in their arrival order.
C24_AppliedPerKindInOrder ==
  BatchApplied =>
    cyc.applied = ConcatEdges(cyc.arrived_mesh) \o ConcatEdges(cyc.arrived_pose)

\* a cycle drained two mesh-factor messages that both carried an edge
C24_Witness ==
  /\ BatchApplied
  /\ Len(cyc.arrived_mesh) = 2
  /\ Len(cyc.applied) = 2
  /\ cyc.applied[1][1] < cyc.applied[2][1]

\* the four mutexes and who holds each: "free" or a thread
Holder ==
  [pgmo_mutex_ |-> pgmo_mutex_, lcd_mutex |-> lcd_mutex,
   private_mutex |-> private_mutex, shared_mutex |-> shared_mutex]

HeldBy(t) == {m \in DOMAIN Holder : Holder[m] = t}

\* the mutex the next step of the backend loop locks, "none" when it locks none
BackendWants ==
  CASE pc = "pgmo_lock" -> "pgmo_mutex_"
    [] pc = "lcd_lock" -> "lcd_mutex"
    [] pc = "private_lock" -> "private_mutex"
    [] pc = "merge" /\ shared_updated -> "shared_mutex"
    [] pc \in {"opt_lock", "ref_lock"} -> "pgmo_mutex_"
    [] pc = "rooms" /\ room_finder_ -> "private_mutex"
    [] pc \in {"find_rooms", "store_unlabeled", "building"} -> "private_mutex"
    [] OTHER -> "none"

\* the mutex the next step of the render loop locks
VizWants ==
  IF viz_pc = "redraw" \/ (viz_pc = "reset" /\ visualizer_should_reset_)
    THEN IF visualizer_show_frontend_ THEN "shared_mutex" ELSE "private_mutex"
    ELSE "none"

\* the thread that holds the mutex a thread is about to lock
WaitsOn(wants) ==
  IF wants # "none" /\ Holder[wants] # "free" THEN Holder[wants] ELSE "nobody"

\* the order of the locks: the first is locked before the second
LockOrder ==
  {<<"pgmo_mutex_", "lcd_mutex">>, <<"private_mutex", "shared_mutex">>,
   <<"private_mutex", "pgmo_mutex_">>}

\* C25: a thread locks a mutex only while every mutex it holds comes before it in
\* the order pgmo before lcd, private before shared, private before pgmo (so
\* never one it holds); the render loop and the save services hold one mutex at
\* a time; no thread waits for itself and no two threads wait for each other; a
\* thread that waits for nobody can take its step.
C25_NoDeadlock ==
  /\ BackendWants # "none" =>
       \A h \in HeldBy("backend") : <<h, BackendWants>> \in LockOrder
  /\ VizWants # "none" => HeldBy("visualizer") = {}
  /\ Cardinality(HeldBy("visualizer")) <= 1
  /\ HeldBy("save_mesh") \subseteq {"private_mutex"}
  /\ HeldBy("save_trajectory") \subseteq {"pgmo_mutex_"}
  /\ WaitsOn(BackendWants) # "backend"
  /\ WaitsOn(VizWants) # "visualizer"
  /\ ~(WaitsOn(BackendWants) = "visualizer" /\ WaitsOn(VizWants) = "backend")
  /\ WaitsOn(BackendWants) = "nobody" => ENABLED Backend
  /\ WaitsOn(VizWants) = "nobody" => ENABLED runVisualizer

\* the render loop waits for the private graph, which the backend holds in
\* optimize(), and the backend waits for the buffers, which a save service holds
C25_Witness ==
  /\ pc = "opt_lock"
  /\ HeldBy("backend") = {"private_mutex"}
  /\ WaitsOn(BackendWants) = "save_trajectory"
  /\ WaitsOn(VizWants) = "backend"

\* C26: with the updated flag clear, every change the front end made to the shared
\* graph has been merged: each place of the shared graph is in the backend's copy
\* of the places and no place the front end removed is.
C26_NoFrontEndUpdateLost ==
  ~shared_updated =>
    /\ shared_places \subseteq shared_places_copy_
    /\ shared_removed \cap shared_places_copy_ = {}

\* a step of the backend that reads shared_dsg_->graph: the node lookups for a
\* popped loop-closure candidate, and the merge of the shared graph
ReadsSharedGraph == LcdPop \/ (UpdatePrivateDsgMerge /\ shared_updated)

\* C27: every step in which the backend reads the shared graph is taken with the
\* shared-state lock held by the backend.
C27_SharedReadsUnderLock ==
  [][ReadsSharedGraph => (shared_mutex = "backend" \/ shared_mutex' = "backend")]_vars

====
